---- MODULE Spec2Model ----
(***************************************************************************)
(* Model of easybuild/scripts/prep_for_release.py: the release checklist   *)
(* script.  Text is a sequence of one-character strings, the regular       *)
(* expressions of the script are matched character by character, and the   *)
(* script body (MAIN) is a sequence of steps, one per call it makes.       *)
(***************************************************************************)
EXTENDS Naturals, Integers, Sequences, FiniteSets

VARIABLES
  pc,                    \* the statement of MAIN that runs next
  env,                   \* what the last step read from the file system or from git
  easybuild_version,     \* MAIN's global of that name (a LooseVersion or None)
  last_git_version_tag,  \* MAIN's global of that name (a LooseVersion or None)
  all_checks,            \* MAIN's list of check results
  stderr,                \* the messages written to sys.stderr, in order
  exit_status,           \* Running until the process ends, then Exited(0) or Exited(1)
  calls                  \* the functions MAIN has called so far, in order

vars == <<pc, env, easybuild_version, last_git_version_tag, all_checks, stderr,
          exit_status, calls>>

\* Python's None, where a LooseVersion is expected
None == [none |-> TRUE]
NoInput == [kind |-> "none"]
\* exit_status: no status while the process runs, then the status it exited with
Running == <<>>
Exited(status) == <<status>>

(***************************************************************************)
(* Bounds of the inputs.                                                   *)
(***************************************************************************)
MaxVerLen == 5       \* characters of the declared version (SpecVersion)
MaxTagVerLen == 3    \* characters of the version of the last tag (SpecVersion)
MaxTags == 2         \* names in the output of git tag -l
MaxLines == 2        \* lines of RELEASE_NOTES
MaxStatusLines == 2  \* lines of the output of git status

(***************************************************************************)
(* Characters and the subset of Python's re the script uses.               *)
(***************************************************************************)
Digit == {"0", "1", "2", "3", "4", "5", "6", "7", "8", "9"}
Lower == {"a", "b", "c", "d", "e", "f", "g", "h", "i", "j", "k", "l", "m",
          "n", "o", "p", "q", "r", "s", "t", "u", "v", "w", "x", "y", "z"}
Upper == {"A", "B", "C", "D", "E", "F", "G", "H", "I", "J", "K", "L", "M",
          "N", "O", "P", "Q", "R", "S", "T", "U", "V", "W", "X", "Y", "Z"}
Space == {" ", "\t", "\n", "\r"}

\* a character class: the characters of set, or (neg) all the others
In(S) == [neg |-> FALSE, set |-> S]
NotIn(S) == [neg |-> TRUE, set |-> S]
InClass(c, cls) == (c \in cls.set) # cls.neg

AnyChar == NotIn({"\n"})       \* '.' without re.DOTALL
NotDot == NotIn({".", "\n"})   \* '(?!\.).'

\* one item of a pattern: a class, taken once, once or more (+), or any number of times (*)
One(cls) == [cls |-> cls, rep |-> "one"]
Plus(cls) == [cls |-> cls, rep |-> "plus"]
Star(cls) == [cls |-> cls, rep |-> "star"]
Lit(str) == [i \in 1..Len(str) |-> One(In({str[i]}))]

RECURSIVE RunEnd(_, _, _)
\* the first position from j on whose character is not in cls (Len(s) + 1 if none)
RunEnd(cls, s, j) ==
  IF j <= Len(s) /\ InClass(s[j], cls) THEN RunEnd(cls, s, j + 1) ELSE j

\* the positions k >= j with every character of s[j..k-1] in cls
Run(cls, s, j) == j..RunEnd(cls, s, j)

\* the positions after one item, matched from a position of J
StepItem(it, s, J) ==
  CASE it.rep = "one" -> {j + 1 : j \in {x \in J : x <= Len(s) /\ InClass(s[x], it.cls)}}
    [] it.rep = "plus" -> UNION {Run(it.cls, s, j) \ {j} : j \in J}
    [] it.rep = "star" -> UNION {Run(it.cls, s, j) : j \in J}

RECURSIVE EndsFrom(_, _, _, _)
EndsFrom(pat, i, s, J) ==
  IF i > Len(pat) THEN J ELSE EndsFrom(pat, i + 1, s, StepItem(pat[i], s, J))

\* the positions where a match of pat that starts at position j of s can end
Ends(pat, s, j) == EndsFrom(pat, 1, s, {j})

\* '$': the end of the string or just before a final newline; with re.M before any newline
AtDollar(s, k, multiline) ==
  \/ k = Len(s) + 1
  \/ k = Len(s) /\ s[k] = "\n"
  \/ multiline /\ k <= Len(s) /\ s[k] = "\n"

\* '^' with re.M: the start of the string or just after a newline
LineStarts(s) == {1} \cup {k + 1 : k \in {x \in 1..Len(s) : s[x] = "\n"}}

\* re.match of '^pat$' (no flags)
MatchWhole(pat, s) == \E k \in Ends(pat, s, 1) : AtDollar(s, k, FALSE)

\* re.search of '^pat$' with re.M
SearchLine(pat, s) == \E p \in LineStarts(s) : \E k \in Ends(pat, s, p) : AtDollar(s, k, TRUE)

\* re.search of an unanchored pattern
SearchAnywhere(pat, s) == \E p \in 1..(Len(s) + 1) : Ends(pat, s, p) # {}

SetMax(S) == CHOOSE x \in S : \A y \in S : y <= x
SetMin(S) == CHOOSE x \in S : \A y \in S : x <= y

(***************************************************************************)
(* distutils.version.LooseVersion, for strings of digits and dots: the     *)
(* components are the runs of digits, each converted with int().           *)
(***************************************************************************)
DigitValue(c) ==
  CASE c = "0" -> 0 [] c = "1" -> 1 [] c = "2" -> 2 [] c = "3" -> 3 [] c = "4" -> 4
    [] c = "5" -> 5 [] c = "6" -> 6 [] c = "7" -> 7 [] c = "8" -> 8 [] c = "9" -> 9

RECURSIVE ParseComponents(_, _, _, _)
\* s from position i on; cur is the value of the run of digits being read (inrun)
ParseComponents(s, i, cur, inrun) ==
  IF i > Len(s) THEN (IF inrun THEN <<cur>> ELSE <<>>)
  ELSE IF s[i] \in Digit
       THEN ParseComponents(s, i + 1, (IF inrun THEN cur * 10 ELSE 0) + DigitValue(s[i]), TRUE)
       ELSE (IF inrun THEN <<cur>> ELSE <<>>) \o ParseComponents(s, i + 1, 0, FALSE)

LooseVersion(vstring) ==
  [vstring |-> vstring, version |-> ParseComponents(vstring, 1, 0, FALSE)]

RECURSIVE ListCmpPadded(_, _)
\* a comparison that takes a missing component for 0
ListCmpPadded(a, b) ==
  IF a = <<>> /\ b = <<>> THEN 0
  ELSE LET x == IF a = <<>> THEN 0 ELSE Head(a)
           y == IF b = <<>> THEN 0 ELSE Head(b)
       IN IF x < y THEN -1
          ELSE IF x > y THEN 1
          ELSE ListCmpPadded(IF a = <<>> THEN a ELSE Tail(a), IF b = <<>> THEN b ELSE Tail(b))

RECURSIVE ListCmp(_, _)
\* Python's cmp of two lists of integers: -1, 0 or 1
ListCmp(a, b) ==
  IF a = <<>> /\ b = <<>> THEN 0
  ELSE IF a = <<>> THEN -1
  ELSE IF b = <<>> THEN 1
  ELSE IF Head(a) < Head(b) THEN -1
  ELSE IF Head(a) > Head(b) THEN 1
  ELSE ListCmp(Tail(a), Tail(b))

\* LooseVersion.__cmp__
LooseVersionCmp(a, b) == ListCmp(a.version, b.version)

\* the built-in max of two values: the first one unless the second is greater
PyMax(a, b) == IF LooseVersionCmp(b, a) > 0 THEN b ELSE a

\* str() of a LooseVersion
VersionStr(v) == v.vstring

(***************************************************************************)
(* The messages of error() and warning(): the level and what is reported.  *)
(***************************************************************************)
ErrorMsg(what) == [level |-> "ERROR", what |-> what, path |-> <<>>]
WarningMsg(what) == [level |-> "WARNING", what |-> what, path |-> <<>>]
HeaderWarning(fullfn) == [level |-> "WARNING", what |-> "no license header", path |-> fullfn]

\* the statement of MAIN that follows the one at pc
Following(at) ==
  CASE at = "get_easybuild_version" -> "get_last_git_version_tag"
    [] at = "get_last_git_version_tag" -> "check_version"
    [] at = "check_version" -> "check_release_notes"
    [] at = "check_release_notes" -> "check_license_headers"
    [] at = "check_license_headers" -> "check_clean_master_branch"
    [] at = "check_clean_master_branch" -> "final"
    [] at = "final" -> "exited"

\* error() that writes its message and returns to its caller
error_returns(written, what) ==
  /\ stderr' = Append(written, ErrorMsg(what))
  /\ pc' = Following(pc)
  /\ UNCHANGED exit_status

\* error(msg), called when written is what stderr holds: the message, then sys.exit(1)
error(written, what) ==
  /\ stderr' = Append(written, ErrorMsg(what))
  /\ exit_status' = Exited(1)
  /\ pc' = "exited"

\* the outcome of reading a file: the text, or IOError
Text(txt) == [readable |-> TRUE, txt |-> txt]
Unreadable == [readable |-> FALSE]
\* the outcome of a git command: the output, or GitCommandError
Output(out) == [failed |-> FALSE, out |-> out]
GitCommandError == [failed |-> TRUE]

\* the sequences over S of length n, and of length lo..hi
RECURSIVE SeqsOfLen(_, _)
SeqsOfLen(S, n) == IF n = 0 THEN {<<>>} ELSE {Append(q, x) : q \in SeqsOfLen(S, n - 1), x \in S}
SeqsOf(S, lo, hi) == UNION {SeqsOfLen(S, n) : n \in lo..hi}

RECURSIVE JoinLines(_)
\* the text made of the lines, each ended by a newline
JoinLines(lines) ==
  IF lines = <<>> THEN <<>> ELSE Head(lines) \o <<"\n">> \o JoinLines(Tail(lines))

(***************************************************************************)
(* get_easybuild_version                                                   *)
(***************************************************************************)
DigitDot == Digit \cup {"."}

\* "^VERSION\s*=\s*[a-zA-Z(\"']*\s*" : what version_re has before its group
version_re_prefix ==
  Lit(<<"V", "E", "R", "S", "I", "O", "N">>) \o
  <<Star(In(Space)), One(In({"="})), Star(In(Space)),
    Star(In(Lower \cup Upper \cup {"(", "\"", "'"})), Star(In(Space))>>

\* where the group 'version' can start in a match of version_re that starts at p
VersionGroupStarts(txt, p) ==
  {q \in Ends(version_re_prefix, txt, p) : q <= Len(txt) /\ txt[q] \in DigitDot}

\* version_re.search(inittxt).group('version'), or None: the leftmost match, its group
\* '[0-9.]+' taken greedily (the '.*$' after it matches whatever is left of the line)
version_re_search(txt) ==
  LET starts == {p \in LineStarts(txt) : VersionGroupStarts(txt, p) # {}}
  IN IF starts = {} THEN [matched |-> FALSE]
     ELSE LET q == SetMax(VersionGroupStarts(txt, SetMin(starts)))
          IN [matched |-> TRUE,
              version |-> SubSeq(txt, q, SetMax(Run(In(DigitDot), txt, q)) - 1)]

InitTexts ==
  { <<"V", "E", "R", "S", "I", "O", "N", " ", "=", " ", "\"", "1", ".", "4", "\"", "\n">>,
    <<"#", " ", "i", "n", "i", "t", "\n", "V", "E", "R", "S", "I", "O", "N", " ", "=", " ", "'", "1", ".", "5", "'", "\n">>,
    <<"V", "E", "R", "S", "I", "O", "N", "=", "1", ".", "1", "0", "\n">>,
    <<"V", "E", "R", "S", "I", "O", "N", " ", "=", " ", "L", "o", "o", "s", "e", "V", "e", "r", "s", "i", "o", "n", "(", "\"", "1", ".", "4", ".", "0", "\"", ")", "\n">>,
    <<"#", " ", "V", "E", "R", "S", "I", "O", "N", " ", "=", " ", "1", ".", "4", "\n">> }

InitFiles == {Unreadable} \cup {Text(t) : t \in InitTexts}

get_easybuild_version ==
  /\ pc = "get_easybuild_version"
  /\ \E f \in InitFiles :
       LET res == IF f.readable THEN version_re_search(f.txt) ELSE [matched |-> FALSE]
       IN /\ env' = [kind |-> "initfile", initfile |-> f]
          /\ calls' = Append(calls, "get_easybuild_version")
          /\ IF ~f.readable
             THEN /\ error(stderr, "Failed to read init file")
                  /\ UNCHANGED easybuild_version
             ELSE IF ~res.matched
             THEN /\ error(stderr, "Failed to determine version")
                  /\ UNCHANGED easybuild_version
             ELSE /\ easybuild_version' = LooseVersion(res.version)
                  /\ pc' = "get_last_git_version_tag"
                  /\ UNCHANGED <<stderr, exit_status>>
  /\ UNCHANGED <<last_git_version_tag, all_checks>>

(***************************************************************************)
(* get_last_git_version_tag                                                *)
(***************************************************************************)
\* "^v([0-9]+\.[0-9]+)$"
vertag_re == <<One(In({"v"})), Plus(In(Digit)), One(In({"."})), Plus(In(Digit))>>

\* vertag_re.match(t).group(1): the tag without its leading v
vertag_group(t) == SubSeq(t, 2, IF t[Len(t)] = "\n" THEN Len(t) - 1 ELSE Len(t))

\* [LooseVersion(vertag_re.match(t).group(1)) for t in git_tags if vertag_re.match(t)]
git_version_tags(git_tags) ==
  LET matching == SelectSeq(git_tags, LAMBDA t : MatchWhole(vertag_re, t))
  IN [i \in 1..Len(matching) |-> LooseVersion(vertag_group(matching[i]))]

\* git_version_tags[-1]
LastOf(versions) == versions[Len(versions)]

TagNames ==
  { <<"v", "1", ".", "4">>, <<"v", "1", ".", "5">>, <<"v", "1", ".", "9">>, <<"v", "1", ".", "1", "0">>,
    <<"v", "1", ".", "4", "r", "c", "1">>, <<"r", "e", "l", "e", "a", "s", "e", "-", "2", ".", "0">> }

\* the characters of the tag names, in the order of their codes
CharOrder ==
  <<"-", ".", "0", "1", "2", "3", "4", "5", "6", "7", "8", "9",
    "a", "b", "c", "d", "e", "f", "g", "h", "i", "j", "k", "l", "m",
    "n", "o", "p", "q", "r", "s", "t", "u", "v", "w", "x", "y", "z">>
CharCode(c) == CHOOSE i \in 1..Len(CharOrder) : CharOrder[i] = c

\* a sorts before b, as git tag -l sorts the names it lists
SortsBefore(a, b) ==
  \E k \in 1..(Len(a) + 1) :
    /\ k <= Len(b)
    /\ \A i \in 1..(k - 1) : a[i] = b[i]
    /\ k = Len(a) + 1 \/ CharCode(a[k]) < CharCode(b[k])

\* the output of git tag -l split at the newlines: the one empty string when there is
\* no tag, else the names in sorted order; or GitCommandError
TagListings ==
  {GitCommandError, Output(<<(<<>>)>>)} \cup
  {Output(l) : l \in {m \in SeqsOf(TagNames, 1, MaxTags) :
                       \A i \in 1..(Len(m) - 1) : SortsBefore(m[i], m[i + 1])}}

get_last_git_version_tag ==
  /\ pc = "get_last_git_version_tag"
  /\ \E g \in TagListings :
       /\ env' = [kind |-> "git_tags", git_tags |-> g]
       /\ calls' = Append(calls, "get_last_git_version_tag")
       /\ IF g.failed
          THEN /\ error(stderr, "Failed to determine last git tag")
               /\ UNCHANGED last_git_version_tag
          ELSE IF Len(git_version_tags(g.out)) >= 1
          THEN /\ last_git_version_tag' = LastOf(git_version_tags(g.out))
               /\ pc' = "check_version"
               /\ UNCHANGED <<stderr, exit_status>>
          ELSE /\ error(stderr, "No git version tags set?")
               /\ UNCHANGED last_git_version_tag
  /\ UNCHANGED <<easybuild_version, all_checks>>

(***************************************************************************)
(* check_version                                                           *)
(***************************************************************************)
\* the value check_version returns: easybuild_version == last_version_git_tag
check_version_result(ev, tag) == LooseVersionCmp(ev, tag) = 0

check_version ==
  /\ pc = "check_version"
  /\ LET ok == check_version_result(easybuild_version, last_git_version_tag)
     IN /\ all_checks' = Append(all_checks, ok)
        /\ stderr' = IF ok THEN stderr
                     ELSE Append(stderr, WarningMsg("version does not match last tag"))
  /\ calls' = Append(calls, "check_version")
  /\ env' = NoInput
  /\ pc' = "check_release_notes"
  /\ UNCHANGED <<easybuild_version, last_git_version_tag, exit_status>>

(***************************************************************************)
(* check_release_notes                                                     *)
(***************************************************************************)
\* the text of a version used as a regular expression: a dot matches any character
VersionPattern(vstring) ==
  [i \in 1..Len(vstring) |->
     IF vstring[i] = "." THEN One(AnyChar) ELSE One(In({vstring[i]}))]

\* "^v%s\s\([A-Z][a-z]+\s[0-9]+[a-z]+\s[0-9]+\)$" % easybuild_version
ver_re(version) ==
  <<One(In({"v"}))>> \o VersionPattern(VersionStr(version)) \o
  <<One(In(Space)), One(In({"("})), One(In(Upper)), Plus(In(Lower)), One(In(Space)),
    Plus(In(Digit)), Plus(In(Lower)), One(In(Space)), Plus(In(Digit)), One(In({")"}))>>

\* the value check_release_notes returns for the text of RELEASE_NOTES
check_release_notes_result(releasenotes, version) == SearchLine(ver_re(version), releasenotes)

NoteLines ==
  { <<"v", "1", ".", "4", " ", "(", "M", "a", "y", " ", "1", "s", "t", " ", "2", "0", "1", "2", ")">>,
    <<"v", "1", ".", "5", " ", "(", "M", "a", "y", " ", "2", "n", "d", " ", "2", "0", "1", "2", ")">>,
    <<"v", "1", ".", "9", " ", "(", "M", "a", "y", " ", "3", "r", "d", " ", "2", "0", "1", "2", ")">>,
    <<"v", "1", ".", "1", "0", " ", "(", "M", "a", "y", " ", "4", "t", "h", " ", "2", "0", "1", "2", ")">>,
    <<"v", "1", "1", "4", " ", "(", "M", "a", "y", " ", "5", "t", "h", " ", "2", "0", "1", "2", ")">>,
    <<"v", "1", ".", "4", " ", "(", "M", "a", "y", " ", "2", "0", "1", "2", ")">> }

NotesFiles == {Unreadable} \cup {Text(JoinLines(l)) : l \in SeqsOf(NoteLines, 0, MaxLines)}

check_release_notes ==
  /\ pc = "check_release_notes"
  /\ \E f \in NotesFiles :
       LET version == PyMax(easybuild_version, last_git_version_tag)
       IN /\ env' = [kind |-> "releasenotes", releasenotes |-> f, version |-> version]
          /\ calls' = Append(calls, "check_release_notes")
          /\ IF ~f.readable
             THEN /\ error(stderr, "Failed to read RELEASE_NOTES")
                  /\ UNCHANGED all_checks
             ELSE LET ok == check_release_notes_result(f.txt, version)
                  IN /\ all_checks' = Append(all_checks, ok)
                     /\ stderr' = IF ok THEN stderr
                                  ELSE Append(stderr, WarningMsg("no release notes entry"))
                     /\ pc' = "check_license_headers"
                     /\ UNCHANGED exit_status
  /\ UNCHANGED <<easybuild_version, last_git_version_tag>>

(***************************************************************************)
(* check_license_headers                                                   *)
(***************************************************************************)
\* "[#\n]*#\s+Copyright\s+\d*"
license_header_re ==
  <<Star(In({"#", "\n"})), One(In({"#"})), Plus(In(Space))>> \o
  Lit(<<"C", "o", "p", "y", "r", "i", "g", "h", "t">>) \o <<Plus(In(Space)), Star(In(Digit))>>

\* "^((?!\.).)*\.(py|sh)$": the two alternatives of the last group
filename_re_py == <<Star(NotDot)>> \o Lit(<<".", "p", "y">>)
filename_re_sh == <<Star(NotDot)>> \o Lit(<<".", "s", "h">>)
filename_re_match(basefn) == MatchWhole(filename_re_py, basefn) \/ MatchWhole(filename_re_sh, basefn)

\* "^((?!\.).)*$"
dirname_re == <<Star(NotDot)>>
dirname_re_match(basefn) == MatchWhole(dirname_re, basefn)

\* a directory: what os.listdir gives (entries in listing order), or OSError
Listing(entries) == [listable |-> TRUE, entries |-> entries]
Unlistable == [listable |-> FALSE]
\* the entries of a directory
FileEntry(name, txt) == [name |-> name, isdir |-> FALSE, readable |-> TRUE, txt |-> txt]
UnreadableFile(name) == [name |-> name, isdir |-> FALSE, readable |-> FALSE]
DirEntry(name, dir) == [name |-> name, isdir |-> TRUE, dir |-> dir]

\* line 156, "ok - False": an expression statement, its value is dropped
OkAfterMissingHeader(ok) == ok

\* line 146, "ok = check_license_headers(...)": the result for the subdirectory replaces ok
OkAfterSubdir(ok, subok) == subok

RECURSIVE check_license_headers_rec(_, _)
RECURSIVE ScanEntries(_, _, _, _)

\* the loop over os.listdir(home) from entry i on; acc is the state of the scan so far:
\* ok, the files opened and the files warned about (full paths), and whether error() was called
ScanEntries(home, entries, i, acc) ==
  IF i > Len(entries) \/ acc.fatal THEN acc
  ELSE LET d == entries[i]
           fullfn == home \o <<d.name>>
       IN IF d.isdir
          THEN IF dirname_re_match(d.name)
               THEN LET sub == check_license_headers_rec(fullfn, d.dir)
                    IN ScanEntries(home, entries, i + 1,
                         [ok |-> OkAfterSubdir(acc.ok, sub.ok),
                          opened |-> acc.opened \o sub.opened,
                          warned |-> acc.warned \o sub.warned,
                          fatal |-> sub.fatal])
               ELSE ScanEntries(home, entries, i + 1, acc)
          ELSE IF filename_re_match(d.name)
               THEN IF ~d.readable
                    THEN [acc EXCEPT !.fatal = TRUE]
                    ELSE IF ~SearchAnywhere(license_header_re, d.txt)
                         THEN ScanEntries(home, entries, i + 1,
                                [acc EXCEPT !.opened = Append(@, fullfn),
                                            !.warned = Append(@, fullfn),
                                            !.ok = OkAfterMissingHeader(@)])
                         ELSE ScanEntries(home, entries, i + 1,
                                [acc EXCEPT !.opened = Append(@, fullfn)])
               ELSE ScanEntries(home, entries, i + 1, acc)

\* check_license_headers(home, ...) for the directory dir found at the path home
check_license_headers_rec(home, dir) ==
  LET start == [ok |-> TRUE, opened |-> <<>>, warned |-> <<>>, fatal |-> FALSE]
  IN IF ~dir.listable THEN [start EXCEPT !.fatal = TRUE]
     ELSE ScanEntries(home, dir.entries, 1, start)

HdrText == <<"#", "#", "\n", "#", " ", "C", "o", "p", "y", "r", "i", "g", "h", "t", " ", "2", "0", "1", "2", " ", "G", "h", "e", "n", "t", "\n">>
NoHdrText == <<"i", "m", "p", "o", "r", "t", " ", "o", "s", "\n">>

Name_a_py == <<"a", ".", "p", "y">>
Name_b_sh == <<"b", ".", "s", "h">>
Name_a_b_py == <<"a", ".", "b", ".", "p", "y">>
Name_c_txt == <<"c", ".", "t", "x", "t">>
Name_hidden_py == <<".", "h", "i", "d", "d", "e", "n", ".", "p", "y">>
Name_sub == <<"s", "u", "b">>
Name_git == <<".", "g", "i", "t">>
Name_pkg_d == <<"p", "k", "g", ".", "d">>

\* the trees the whole run is checked on
MainHomes ==
  { Listing(<<>>),
    Listing(<<FileEntry(Name_a_py, HdrText)>>),
    Listing(<<FileEntry(Name_a_py, NoHdrText)>>),
    Listing(<<FileEntry(Name_a_py, NoHdrText), UnreadableFile(Name_b_sh)>>),
    Listing(<<DirEntry(Name_sub, Listing(<<FileEntry(Name_a_py, NoHdrText)>>)),
              FileEntry(Name_b_sh, HdrText)>>),
    Listing(<<FileEntry(Name_a_py, HdrText), DirEntry(Name_sub, Unlistable)>>),
    Listing(<<FileEntry(Name_a_py, HdrText), FileEntry(Name_b_sh, NoHdrText),
              FileEntry(Name_c_txt, NoHdrText), FileEntry(Name_hidden_py, NoHdrText),
              DirEntry(Name_sub, Listing(<<DirEntry(Name_git,
                 Listing(<<FileEntry(Name_a_py, NoHdrText)>>))>>))>>),
    Listing(<<FileEntry(Name_a_b_py, NoHdrText), FileEntry(Name_a_py, HdrText)>>),
    Listing(<<DirEntry(Name_pkg_d, Listing(<<FileEntry(Name_a_py, NoHdrText)>>)),
              FileEntry(Name_a_py, HdrText)>>),
    Unlistable }

check_license_headers_step(homes) ==
  /\ pc = "check_license_headers"
  /\ \E home \in homes :
       LET res == check_license_headers_rec(<<>>, home)
       IN /\ env' = [kind |-> "home", home |-> home, opened |-> res.opened]
          /\ calls' = Append(calls, "check_license_headers")
          /\ IF res.fatal
             THEN /\ error(stderr \o [i \in 1..Len(res.warned) |-> HeaderWarning(res.warned[i])],
                           "Failed to check for license header")
                  /\ UNCHANGED all_checks
             ELSE /\ stderr' = stderr \o [i \in 1..Len(res.warned) |-> HeaderWarning(res.warned[i])]
                  /\ all_checks' = Append(all_checks, res.ok)
                  /\ pc' = "check_clean_master_branch"
                  /\ UNCHANGED exit_status
  /\ UNCHANGED <<easybuild_version, last_git_version_tag>>

check_license_headers == check_license_headers_step(MainHomes)

(***************************************************************************)
(* check_clean_master_branch                                               *)
(***************************************************************************)
MasterLine == <<"#", " ", "O", "n", " ", "b", "r", "a", "n", "c", "h", " ", "m", "a", "s", "t", "e", "r">>
\* "^# On branch master$"
master_re == Lit(MasterLine)
CleanLine == <<"n", "o", "t", "h", "i", "n", "g", " ", "t", "o", " ", "c", "o", "m", "m", "i", "t", " ", "(", "w", "o", "r", "k", "i", "n", "g", " ", "d", "i", "r", "e", "c", "t", "o", "r", "y", " ", "c", "l", "e", "a", "n", ")">>
\* "^nothing to commit \(working directory clean\)$"
clean_re == Lit(CleanLine)

BranchWarning == WarningMsg("not on the master branch")
DirtyWarning == WarningMsg("work present that is not committed")

\* a body in which the second test assigns ok either way
check_clean_master_branch_body_overwrites(git_status) ==
  LET onmaster == SearchLine(master_re, git_status)
      clean == SearchLine(clean_re, git_status)
  IN [ok |-> clean,
      warnings |-> (IF ~onmaster THEN <<BranchWarning>> ELSE <<>>) \o
                   (IF ~clean THEN <<DirtyWarning>> ELSE <<>>)]

\* the body of check_clean_master_branch once git status has answered:
\* the value returned and the warnings written, in order
check_clean_master_branch_body(git_status) ==
  LET ok0 == TRUE
      onmaster == SearchLine(master_re, git_status)
      ok1 == IF ~onmaster THEN FALSE ELSE ok0
      clean == SearchLine(clean_re, git_status)
      ok2 == IF ~clean THEN FALSE ELSE ok1
  IN [ok |-> ok2,
      warnings |-> (IF ~onmaster THEN <<BranchWarning>> ELSE <<>>) \o
                   (IF ~clean THEN <<DirtyWarning>> ELSE <<>>)]

StatusLines ==
  { <<"#", " ", "O", "n", " ", "b", "r", "a", "n", "c", "h", " ", "m", "a", "s", "t", "e", "r">>,
    <<"#", " ", "O", "n", " ", "b", "r", "a", "n", "c", "h", " ", "f", "e", "a", "t", "u", "r", "e", "-", "x">>,
    <<"n", "o", "t", "h", "i", "n", "g", " ", "t", "o", " ", "c", "o", "m", "m", "i", "t", " ", "(", "w", "o", "r", "k", "i", "n", "g", " ", "d", "i", "r", "e", "c", "t", "o", "r", "y", " ", "c", "l", "e", "a", "n", ")">>,
    <<"#", " ", "C", "h", "a", "n", "g", "e", "s", " ", "n", "o", "t", " ", "s", "t", "a", "g", "e", "d", " ", "f", "o", "r", " ", "c", "o", "m", "m", "i", "t", ":">> }

StatusOutputs ==
  {GitCommandError} \cup {Output(JoinLines(l)) : l \in SeqsOf(StatusLines, 0, MaxStatusLines)}

check_clean_master_branch ==
  /\ pc = "check_clean_master_branch"
  /\ \E g \in StatusOutputs :
       /\ env' = [kind |-> "git_status", git_status |-> g]
       /\ calls' = Append(calls, "check_clean_master_branch")
       /\ IF g.failed
          THEN /\ error(stderr, "Failed to determine status of git repository")
               /\ UNCHANGED all_checks
          ELSE LET res == check_clean_master_branch_body(g.out)
               IN /\ all_checks' = Append(all_checks, res.ok)
                  /\ stderr' = stderr \o res.warnings
                  /\ pc' = "final"
                  /\ UNCHANGED exit_status
  /\ UNCHANGED <<easybuild_version, last_git_version_tag>>

(***************************************************************************)
(* MAIN: the last statement, and the script as a whole                     *)
(***************************************************************************)
\* any(all_checks)
AnyTrue(checks) == \E i \in 1..Len(checks) : checks[i]

\* all(all_checks)
All(checks) == \A i \in 1..Len(checks) : checks[i]

NotReadyText == "One or multiple checks have failed, not ready to be released"
NotReady == ErrorMsg(NotReadyText)

\* "if not all(all_checks): error(...)", then the end of the script
final ==
  /\ pc = "final"
  /\ IF ~All(all_checks)
     THEN error(stderr, NotReadyText)
     ELSE /\ exit_status' = Exited(0)
          /\ pc' = "exited"
          /\ UNCHANGED stderr
  /\ UNCHANGED <<env, easybuild_version, last_git_version_tag, all_checks, calls>>

Init ==
  /\ pc = "get_easybuild_version"
  /\ env = NoInput
  /\ easybuild_version = None
  /\ last_git_version_tag = None
  /\ all_checks = <<>>
  /\ stderr = <<>>
  /\ exit_status = Running
  /\ calls = <<>>

Next ==
  \/ get_easybuild_version
  \/ get_last_git_version_tag
  \/ check_version
  \/ check_release_notes
  \/ check_license_headers
  \/ check_clean_master_branch
  \/ final

Spec == Init /\ [][Next]_vars

(***************************************************************************)
(* check_version on its own: every declared version of up to MaxVerLen     *)
(* characters and every tag version of up to MaxTagVerLen characters, in   *)
(* the state MAIN has before line 208.                                     *)
(***************************************************************************)
VerAlphabet == {"0", "1", "9", "."}
DeclaredStrings == SeqsOf(VerAlphabet, 1, MaxVerLen)
TagStrings == {t \in SeqsOf(VerAlphabet, 1, MaxTagVerLen) : MatchWhole(vertag_re, <<"v">> \o t)}

InitVersion ==
  /\ pc = "check_version"
  /\ \E d \in DeclaredStrings, t \in TagStrings :
       /\ easybuild_version = LooseVersion(d)
       /\ last_git_version_tag = LooseVersion(t)
       /\ env = [kind |-> "git_tags", git_tags |-> Output(<<(<<"v">> \o t)>>)]
  /\ all_checks = <<>>
  /\ stderr = <<>>
  /\ exit_status = Running
  /\ calls = <<"get_easybuild_version", "get_last_git_version_tag">>

SpecVersion == InitVersion /\ [][check_version]_vars

(***************************************************************************)
(* What the claims speak of, stated without the script's code.             *)
(***************************************************************************)
Last(seq) == seq[Len(seq)]
Range(seq) == {seq[i] : i \in 1..Len(seq)}
Count(seq, x) == Cardinality({i \in 1..Len(seq) : seq[i] = x})

StartsWithDot(name) == Len(name) >= 1 /\ name[1] = "."
EndsWith(name, suffix) ==
  Len(name) >= Len(suffix) /\ SubSeq(name, Len(name) - Len(suffix) + 1, Len(name)) = suffix
\* a name that does not start with '.' and ends with '.py' or '.sh'
EligibleFileName(name) ==
  ~StartsWithDot(name) /\ (EndsWith(name, <<".", "p", "y">>) \/ EndsWith(name, <<".", "s", "h">>))

RECURSIVE SubtreeFiles(_, _, _)
\* the files below dir (found at the path home), as [path, entry], reached through the
\* subdirectories the scan enters (byname = FALSE) or through those whose name does not
\* start with '.' (byname = TRUE)
SubtreeFiles(home, dir, byname) ==
  IF ~dir.listable THEN {}
  ELSE UNION { LET e == dir.entries[i]
               IN IF e.isdir
                  THEN IF (IF byname THEN ~StartsWithDot(e.name) ELSE dirname_re_match(e.name))
                       THEN SubtreeFiles(home \o <<e.name>>, e.dir, byname)
                       ELSE {}
                  ELSE {[path |-> home \o <<e.name>>, entry |-> e]}
             : i \in 1..Len(dir.entries) }

LacksHeader(e) == e.readable /\ ~SearchAnywhere(license_header_re, e.txt)

RECURSIVE HasIOError(_)
\* listing a directory the scan enters, or opening a file it checks, fails
HasIOError(dir) ==
  \/ ~dir.listable
  \/ \E i \in 1..Len(dir.entries) :
       LET e == dir.entries[i]
       IN IF e.isdir THEN dirname_re_match(e.name) /\ HasIOError(e.dir)
          ELSE filename_re_match(e.name) /\ ~e.readable

HeaderWarningPaths == {stderr[i].path : i \in {j \in 1..Len(stderr) : stderr[j].what = "no license header"}}

\* the text has line as one of its lines
ContainsLine(text, line) ==
  \E p \in 1..Len(text) :
    /\ p + Len(line) - 1 <= Len(text)
    /\ SubSeq(text, p, p + Len(line) - 1) = line
    /\ p = 1 \/ text[p - 1] = "\n"
    /\ p + Len(line) = Len(text) + 1 \/ text[p + Len(line)] = "\n"

\* a tag name of the shape v<digits>.<digits>
IsReleaseTag(t) ==
  /\ Len(t) >= 4
  /\ t[1] = "v"
  /\ \E k \in 3..(Len(t) - 1) :
       /\ t[k] = "."
       /\ \A i \in (2..Len(t)) \ {k} : t[i] \in Digit

\* "\s\([A-Z][a-z]+\s[0-9]+[a-z]+\s[0-9]+\)": what follows the version in an entry line
EntryDate ==
  <<One(In(Space)), One(In({"("})), One(In(Upper)), Plus(In(Lower)), One(In(Space)),
    Plus(In(Digit)), Plus(In(Lower)), One(In(Space)), Plus(In(Digit)), One(In({")"}))>>
\* the document has a line v<version> (<Month> <day><suffix> <year>) for this very version
HasEntryFor(text, vstring) == SearchLine(<<One(In({"v"}))>> \o Lit(vstring) \o EntryDate, text)

AllCalls ==
  <<"get_easybuild_version", "get_last_git_version_tag", "check_version",
    "check_release_notes", "check_license_headers", "check_clean_master_branch">>

\* the components are equal once the shorter list is padded with zeros
PaddedEqual(a, b) ==
  \A i \in 1..(IF Len(a) > Len(b) THEN Len(a) ELSE Len(b)) :
    (IF i <= Len(a) THEN a[i] ELSE 0) = (IF i <= Len(b) THEN b[i] ELSE 0)

\* a is after b: greater at the first component where they differ, or b with more components
NumericallyAfter(a, b) ==
  \E k \in 1..Len(a) :
    /\ \A i \in 1..(k - 1) : i <= Len(b) /\ a[i] = b[i]
    /\ k > Len(b) \/ a[k] > b[k]

(***************************************************************************)
(* The claims.                                                             *)
(***************************************************************************)
ScanReturned == pc = "check_clean_master_branch"

\* C1: check_license_headers returns true if and only if every file the scan checks
\* anywhere in the subtree under the root contains the license header; one such file
\* without the header makes the result false.
C1_TrueIffEveryFileHasHeader ==
  ScanReturned =>
    (all_checks[3] <=>
       \A f \in SubtreeFiles(<<>>, env.home, FALSE) :
         filename_re_match(f.entry.name) => ~LacksHeader(f.entry))

\* C2: a run that no fatal error ends exits with status 0 if and only if the four
\* collected results are all true; otherwise it ends with the "not ready" error and
\* status 1.
C2_ExitZeroIffAllChecksPass ==
  (pc = "exited" /\ Len(all_checks) = 4) =>
    LET pass == all_checks[1] /\ all_checks[2] /\ all_checks[3] /\ all_checks[4]
    IN /\ exit_status = Exited(0) <=> pass
       /\ pass => \A i \in 1..Len(stderr) : stderr[i].level # "ERROR"
       /\ ~pass => exit_status = Exited(1) /\ Last(stderr) = NotReady

C2_Witness ==
  /\ pc = "exited"
  /\ all_checks = <<TRUE, TRUE, TRUE, FALSE>>
  /\ exit_status = Exited(1)

\* C3: get_last_git_version_tag takes as candidates exactly the tags of the shape
\* v<digits>.<digits> and returns the greatest candidate under version ordering, in
\* whatever order the tags are listed.
C3_ReturnsGreatestTag ==
  (pc = "check_version" /\ env.kind = "git_tags") =>
    LET tags == env.git_tags.out
        candidates == {LooseVersion(SubSeq(tags[i], 2, Len(tags[i]))) :
                         i \in {j \in 1..Len(tags) : IsReleaseTag(tags[j])}}
    IN /\ last_git_version_tag \in candidates
       /\ \A c \in candidates : LooseVersionCmp(c, last_git_version_tag) <= 0

\* C4: a check failure never aborts the run: once a check has warned (versions differ,
\* no release notes entry, a header missing, wrong branch or dirty tree) and no fatal
\* error occurs, the four checks are all executed in order, each adds one result, and
\* the run then ends with a non-zero exit.
C4_FailedCheckRunsAllAndExitsNonZero ==
  /\ \E n \in 0..Len(AllCalls) : calls = SubSeq(AllCalls, 1, n)
  /\ (/\ pc = "exited"
      /\ \E i \in 1..Len(stderr) : stderr[i].level = "WARNING"
      /\ \A i \in 1..Len(stderr) : stderr[i].level = "ERROR" => stderr[i] = NotReady)
     => /\ calls = AllCalls
        /\ Len(all_checks) = 4
        /\ exit_status = Exited(1)
        /\ Last(stderr) = NotReady

\* what the last step read is one of the fatal conditions
FatalCondition ==
  \/ env.kind = "initfile" /\ (~env.initfile.readable \/ ~version_re_search(env.initfile.txt).matched)
  \/ env.kind = "git_tags" /\
       (env.git_tags.failed \/ \A i \in 1..Len(env.git_tags.out) : ~IsReleaseTag(env.git_tags.out[i]))
  \/ env.kind = "releasenotes" /\ ~env.releasenotes.readable
  \/ env.kind = "home" /\ HasIOError(env.home)
  \/ env.kind = "git_status" /\ env.git_status.failed

\* the results collected before the function that reads this kind of input is called
ChecksBefore(kind) ==
  CASE kind = "initfile" -> 0
    [] kind = "git_tags" -> 0
    [] kind = "releasenotes" -> 1
    [] kind = "home" -> 2
    [] kind = "git_status" -> 3

\* the place in AllCalls of the function that reads this kind of input
ReaderOf(kind) ==
  CASE kind = "initfile" -> 1
    [] kind = "git_tags" -> 2
    [] kind = "releasenotes" -> 4
    [] kind = "home" -> 5
    [] kind = "git_status" -> 6

\* C5: every fatal condition ends the run at once with exit status 1 and an ERROR
\* message: the function that met it is the last one called, no result is collected
\* for it or after it, and no further step is taken.
C5_FatalConditionEndsRun ==
  FatalCondition =>
    /\ pc = "exited"
    /\ exit_status = Exited(1)
    /\ Last(stderr).level = "ERROR"
    /\ Last(stderr) # NotReady
    /\ Len(all_checks) = ChecksBefore(env.kind)
    /\ calls = SubSeq(AllCalls, 1, ReaderOf(env.kind))
    /\ ~ENABLED Next

C5_Witness ==
  /\ env.kind = "home"
  /\ HasIOError(env.home)
  /\ HeaderWarningPaths # {}
  /\ pc = "exited"
  /\ all_checks = <<FALSE, TRUE>>

VersionChecked == pc = "check_release_notes" /\ Len(all_checks) = 1

\* C6 as stated: check_version returns true if and only if the components of the
\* declared version and of the tag version are equal once the shorter is padded with
\* zeros.
C6_EqualAfterZeroPadding ==
  VersionChecked =>
    (all_checks[1] <=> PaddedEqual(easybuild_version.version, last_git_version_tag.version))

\* C6 as amended: check_version returns true if and only if the declared version and
\* the tag version have the same numeric components, as many in the one as in the other
\* (no padding: 1.4.0 does not equal 1.4), and it warns otherwise; the versions are
\* ordered numerically by their components, a version with further components being
\* after the one it extends.
C6_EqualComponentsNoPadding ==
  VersionChecked =>
    LET d == easybuild_version.version
        t == last_git_version_tag.version
    IN /\ all_checks[1] <=> (Len(d) = Len(t) /\ \A i \in 1..Len(d) : d[i] = t[i])
       /\ all_checks[1] <=> stderr = <<>>
       /\ LooseVersionCmp(easybuild_version, last_git_version_tag) > 0 <=> NumericallyAfter(d, t)
       /\ LooseVersionCmp(easybuild_version, last_git_version_tag) < 0 <=> NumericallyAfter(t, d)

C6_Witness ==
  /\ VersionChecked
  /\ PaddedEqual(easybuild_version.version, last_git_version_tag.version)
  /\ Len(easybuild_version.version) > Len(last_git_version_tag.version)
  /\ all_checks = <<FALSE>>

StatusChecked == pc = "final" /\ env.kind = "git_status"

\* C7: check_clean_master_branch returns true if and only if the status text has the
\* line naming the master branch and the line reporting a clean working tree; each of
\* the two that is missing gets its own warning, and only that one.
C7_BranchAndCleanIndependent ==
  StatusChecked =>
    LET onmaster == ContainsLine(env.git_status.out, MasterLine)
        clean == ContainsLine(env.git_status.out, CleanLine)
    IN /\ all_checks[4] <=> (onmaster /\ clean)
       /\ Count(stderr, BranchWarning) = (IF onmaster THEN 0 ELSE 1)
       /\ Count(stderr, DirtyWarning) = (IF clean THEN 0 ELSE 1)

C7_Witness ==
  /\ StatusChecked
  /\ ~ContainsLine(env.git_status.out, MasterLine)
  /\ ContainsLine(env.git_status.out, CleanLine)
  /\ ~all_checks[4]
  /\ Count(stderr, BranchWarning) = 1
  /\ Count(stderr, DirtyWarning) = 0

\* C8: check_release_notes looks for the later of the declared version and the tag
\* version, and its result is true if and only if the document has an entry line for
\* that version.
C8_TrueIffEntryForLaterVersion ==
  (pc = "check_license_headers" /\ env.kind = "releasenotes") =>
    /\ env.version \in {easybuild_version, last_git_version_tag}
    /\ LooseVersionCmp(env.version, easybuild_version) >= 0
    /\ LooseVersionCmp(env.version, last_git_version_tag) >= 0
    /\ all_checks[2] <=> HasEntryFor(env.releasenotes.txt, VersionStr(env.version))

\* C9: a file of the scanned directory is read and checked for the header if and only
\* if its name does not start with '.' and ends with '.py' or '.sh' (so a.b.py is).
C9_CheckedIffNameEligible ==
  ScanReturned =>
    \A i \in 1..Len(env.home.entries) :
      LET e == env.home.entries[i]
      IN ~e.isdir => (<<e.name>> \in Range(env.opened) <=> EligibleFileName(e.name))

\* C10: a scan warns about exactly the files it checks that lack the header and are
\* reachable from the root through subdirectories whose names do not start with '.'.
C10_WarnsAboutEveryReachableFile ==
  ScanReturned =>
    HeaderWarningPaths =
      {f.path : f \in {g \in SubtreeFiles(<<>>, env.home, TRUE) :
                         filename_re_match(g.entry.name) /\ LacksHeader(g.entry)}}

====
